---- MODULE Spec2Model ----
(***************************************************************************)
(* A model of prim_bin.py (casm-alloy-manager): the project filesystem     *)
(* lookups, the reconstruction of relaxed structures, the construction of  *)
(* prototype (prim) structures, and the ranking of mapping scores.         *)
(*                                                                         *)
(* Python lists are sequences (1-based here, 0-based in the program: a     *)
(* prototype index j of the program is mapper j+1 of the model).  Python   *)
(* strings that the program indexes or splits are sequences of one         *)
(* character strings.  Floating point costs are records that carry a NaN   *)
(* flag.  Each component has its own specification: SpecRank, SpecBasis,   *)
(* SpecPrim and SpecFs; the variables of the other components stay idle.   *)
(***************************************************************************)
EXTENDS Integers, Sequences, FiniteSets, TLC

VARIABLES
    \* rank_relaxed_structure_mapping_scores
    mappers,             \* list of mapping oracles, one per prototype
    relaxed_structures,  \* list of structures, "None" where not relaxed
    pc,                  \* position in the function
    i,                   \* index of the configuration the comprehension is at
    j,                   \* index of the mapper the inner comprehension is at
    row,                 \* the inner list being built
    scores,              \* the rows built so far, then the scores array
    ranks,               \* the array returned
    mask,                \* np.isnan(scores)
    calls,               \* every oracle invocation made so far, in order
    \* make_basis / make_structure
    properties,          \* the properties.calc.json dictionary
    basis_pc,
    basis_ret,           \* what the call returned
    \* make_prim / make_allowed_species
    prim,                \* the prim.json dictionary
    prim_pc,
    prim_ret,
    \* ProjectFilesystem / load_relaxed_structures
    disk,                \* the paths that exist
    confignames,         \* the configurations asked for
    fs_pc,
    props_files,         \* the list built by the first comprehension
    fs_ret               \* what load_relaxed_structures returned

rank_vars == <<mappers, relaxed_structures, pc, i, j, row, scores, ranks,
               mask, calls>>
basis_vars == <<properties, basis_pc, basis_ret>>
prim_vars == <<prim, prim_pc, prim_ret>>
fs_vars == <<disk, confignames, fs_pc, props_files, fs_ret>>
vars == <<rank_vars, basis_vars, prim_vars, fs_vars>>

(***************************************************************************)
(* Bounds of the model.                                                    *)
(***************************************************************************)
MaxMappers == 2
MaxConfigs == 2
MaxTypes == 2
MaxCount == 2
MaxSites == 3
MaxPrimSites == 2
MaxNames == 2

\* Sequences over S of length at most n.
SeqUpTo(S, n) == UNION {[1..k -> S] : k \in 0..n}

Min(a, b) == IF a <= b THEN a ELSE b

(***************************************************************************)
(* Floating point values: a cost, or NaN.                                  *)
(***************************************************************************)
Float(c) == [isnan |-> FALSE, val |-> c]

\* np.nan
NaN == [isnan |-> TRUE, val |-> 0]

\* np.isnan on one element
IsNaN(x) == x.isnan

\* The order numpy sorts floats by: NaN after every number.
FloatLess(a, b) ==
    IF IsNaN(a) THEN FALSE
    ELSE IF IsNaN(b) THEN TRUE
    ELSE a.val < b.val

(***************************************************************************)
(* The mapping oracle (cu.mapping.structure.StructureMapper).  A mapper is *)
(* bound to a prototype and, called on a structure, returns a list of      *)
(* mapping reports in ascending order of cost.  A mapper is modelled by    *)
(* the cost of its best mapping of each structure; the list it returns     *)
(* holds that report and a second, costlier one.                           *)
(***************************************************************************)
Structs == {"s1", "s2"}
Costs == {0, 5}

Mappers == [Structs -> Costs]

\* m(p): the reports of mapper m for structure p
CallMapper(m, p) == <<[cost |-> Float(m[p])], [cost |-> Float(m[p] + 1)]>>

\* m(p)[0].cost
BestCost(m, p) == CallMapper(m, p)[1].cost

\* len(mappers) * [np.nan]
NanRowAtLeastOne(n) == [k \in 1..(IF n = 0 THEN 1 ELSE n) |-> NaN]
NanRow(n) == [k \in 1..n |-> NaN]

\* for m in mappers: the inner comprehension has run out of mappers
InnerDoneEarly(jj, n) == jj >= n
InnerDone(jj, n) == jj > n

(***************************************************************************)
(* np.argsort(scores): along the last axis, kind=None (quicksort), which   *)
(* numpy documents as not stable: the result lists the indices of the row  *)
(* in ascending order of value, equal values in any order.  Computed by    *)
(* selection: any index of a least remaining value comes next.  Indices    *)
(* are 0-based as numpy's.                                                 *)
(***************************************************************************)
RECURSIVE SelectFrom(_, _)
SelectFrom(r, left) ==
    IF left = {} THEN {<<>>}
    ELSE LET least == {k \in left : \A l \in left : ~FloatLess(r[l], r[k])}
         IN UNION {{<<k - 1>> \o rest : rest \in SelectFrom(r, left \ {k})}
                   : k \in least}

RECURSIVE SelectFromDescending(_, _)
SelectFromDescending(r, left) ==
    IF left = {} THEN {<<>>}
    ELSE LET most == {k \in left : \A l \in left : ~FloatLess(r[k], r[l])}
         IN UNION {{<<k - 1>> \o rest
                      : rest \in SelectFromDescending(r, left \ {k})}
                   : k \in most}

ArgsortRowDescending(r) == SelectFromDescending(r, DOMAIN r)
ArgsortRow(r) == SelectFrom(r, DOMAIN r)

\* The arrays np.argsort may return for the array a.
Argsort(a) == {r \in [DOMAIN a -> UNION {ArgsortRow(a[k]) : k \in DOMAIN a}]
                 : \A k \in DOMAIN a : r[k] \in ArgsortRow(a[k])}

\* np.isnan(scores)
IsNanArray(a) == [k \in DOMAIN a |-> [c \in DOMAIN a[k] |-> IsNaN(a[k][c])]]

\* ranks[mask] = -1
MaskedAssignFirstColumn(r, msk) ==
    [k \in DOMAIN r |->
        [c \in DOMAIN r[k] |-> IF msk[k][c] /\ c = 1 THEN -1 ELSE r[k][c]]]
MaskedAssign(r, msk) ==
    [k \in DOMAIN r |->
        [c \in DOMAIN r[k] |-> IF msk[k][c] THEN -1 ELSE r[k][c]]]

(***************************************************************************)
(* rank_relaxed_structure_mapping_scores(mappers, relaxed_structures),     *)
(* one step at a time.                                                     *)
(***************************************************************************)
RankStart ==
    /\ mappers \in SeqUpTo(Mappers, MaxMappers)
    /\ relaxed_structures \in SeqUpTo(Structs \cup {"None"}, MaxConfigs)
    /\ pc = "scores"
    /\ i = 1
    /\ j = 1
    /\ row = <<>>
    /\ scores = <<>>
    /\ ranks = <<>>
    /\ mask = <<>>
    /\ calls = <<>>

RankIdle ==
    /\ mappers = <<>>
    /\ relaxed_structures = <<>>
    /\ pc = "idle"
    /\ i = 1
    /\ j = 1
    /\ row = <<>>
    /\ scores = <<>>
    /\ ranks = <<>>
    /\ mask = <<>>
    /\ calls = <<>>

\* m(p)[0].cost for the next mapper m of the inner comprehension
InvokeMapper ==
    /\ pc = "scores"
    /\ i <= Len(relaxed_structures)
    /\ relaxed_structures[i] # "None"
    /\ ~InnerDone(j, Len(mappers))
    /\ row' = Append(row, BestCost(mappers[j], relaxed_structures[i]))
    /\ calls' = Append(calls, [mapper |-> j, config |-> i,
                               arg |-> relaxed_structures[i]])
    /\ j' = j + 1
    /\ UNCHANGED <<mappers, relaxed_structures, pc, i, scores, ranks, mask>>

\* the inner comprehension is exhausted: its list is the row of p
FinishRow ==
    /\ pc = "scores"
    /\ i <= Len(relaxed_structures)
    /\ relaxed_structures[i] # "None"
    /\ InnerDone(j, Len(mappers))
    /\ scores' = Append(scores, row)
    /\ row' = <<>>
    /\ i' = i + 1
    /\ j' = 1
    /\ UNCHANGED <<mappers, relaxed_structures, pc, ranks, mask, calls>>

\* p is None: the row is len(mappers) * [np.nan]
AbsentRow ==
    /\ pc = "scores"
    /\ i <= Len(relaxed_structures)
    /\ relaxed_structures[i] = "None"
    /\ scores' = Append(scores, NanRow(Len(mappers)))
    /\ i' = i + 1
    /\ UNCHANGED <<mappers, relaxed_structures, pc, j, row, ranks, mask,
                   calls>>

\* ranks = np.argsort(scores)
ArgsortStep ==
    /\ pc = "scores"
    /\ i > Len(relaxed_structures)
    /\ ranks' \in Argsort(scores)
    /\ pc' = "isnan"
    /\ UNCHANGED <<mappers, relaxed_structures, i, j, row, scores, mask,
                   calls>>

\* mask = np.isnan(scores)
IsNanStep ==
    /\ pc = "isnan"
    /\ mask' = IsNanArray(scores)
    /\ pc' = "assign"
    /\ UNCHANGED <<mappers, relaxed_structures, i, j, row, scores, ranks,
                   calls>>

\* ranks[mask] = -1; return ranks
MaskedAssignStep ==
    /\ pc = "assign"
    /\ ranks' = MaskedAssign(ranks, mask)
    /\ pc' = "done"
    /\ UNCHANGED <<mappers, relaxed_structures, i, j, row, scores, mask,
                   calls>>

(***************************************************************************)
(* Lattices, coordinates and sites (casmutils.xtal).  A lattice is three   *)
(* vectors; a coordinate holds a Cartesian position; a site is a           *)
(* coordinate and the label of the species on it.                          *)
(***************************************************************************)
Identity3 == <<<<1, 0, 0>>, <<0, 1, 0>>, <<0, 0, 1>>>>
Sheared3 == <<<<2, 0, 0>>, <<1, 2, 0>>, <<0, 0, 3>>>>
LatticeMatrices == {Identity3, Sheared3}
Positions == {<<0, 0, 0>>, <<1, 2, 1>>}
Species == {"Ni", "Al"}

\* cu.xtal.Lattice(a, b, c)
Lattice(a, b, c) == [a |-> a, b |-> b, c |-> c]

\* cu.xtal.Coordinate(cart)
Coordinate(cart) == [cart |-> cart]

\* cu.xtal.Coordinate.from_fractional(frac, lat)
FromFractional(frac, lat) ==
    Coordinate([d \in 1..3 |->
        frac[1] * lat.a[d] + frac[2] * lat.b[d] + frac[3] * lat.c[d]])

\* cu.xtal.Site(coord, label)
Site(coord, label) == [coord |-> coord, label |-> label]

\* cu.xtal.Structure(lat, basis)
Structure(lat, basis) == [lattice |-> lat, basis |-> basis]

\* zip(a, b): as long as the shorter of the two
Zip(a, b) == [k \in 1..Min(Len(a), Len(b)) |-> <<a[k], b[k]>>]

\* c * [t]: the empty list when c <= 0
Repeat(c, t) == [k \in 1..c |-> t]

\* [x for tt in lists for x in tt]
RECURSIVE Flatten(_)
Flatten(lists) ==
    IF lists = <<>> THEN <<>> ELSE Head(lists) \o Flatten(Tail(lists))

\* What a call returned, or the exception it raised.
NotCalled == [called |-> "none"]
Returned(f, v) == [called |-> f, raised |-> "none", value |-> v]
Raised(f, e) == [called |-> f, raised |-> e]

(***************************************************************************)
(* make_lattice, make_basis, make_structure.                               *)
(***************************************************************************)
make_lattice(props) ==
    Lattice(props.relaxed_lattice[1], props.relaxed_lattice[2],
            props.relaxed_lattice[3])

\* types_roll of make_basis
TypesRollOnePerType(types_count, types) ==
    Flatten([k \in DOMAIN Zip(types_count, types) |->
                <<Zip(types_count, types)[k][2]>>])
TypesRoll(types_count, types) ==
    Flatten([k \in DOMAIN Zip(types_count, types) |->
                Repeat(Zip(types_count, types)[k][1],
                       Zip(types_count, types)[k][2])])

make_basis(props) ==
    LET lat == make_lattice(props)
        types == props.atom_type
        types_count == props.atoms_per_type
        frac_basis == props.relaxed_basis
        types_roll == TypesRoll(types_count, types)
        pairs == Zip(frac_basis, types_roll)
    IN [k \in DOMAIN pairs |->
           Site(FromFractional(pairs[k][1], lat), pairs[k][2])]

make_structure(props) == Structure(make_lattice(props), make_basis(props))

PropertiesDicts ==
    [relaxed_lattice : LatticeMatrices,
     atom_type : SeqUpTo(Species, MaxTypes),
     atoms_per_type : SeqUpTo(0..MaxCount, MaxTypes),
     relaxed_basis : SeqUpTo(Positions, MaxSites)]

BasisStart ==
    /\ properties \in PropertiesDicts
    /\ basis_pc = "start"
    /\ basis_ret = NotCalled

BasisIdle ==
    /\ properties = [relaxed_lattice |-> Identity3, atom_type |-> <<>>,
                     atoms_per_type |-> <<>>, relaxed_basis |-> <<>>]
    /\ basis_pc = "idle"
    /\ basis_ret = NotCalled

MakeBasis ==
    /\ basis_pc = "start"
    /\ basis_ret' = Returned("make_basis", make_basis(properties))
    /\ basis_pc' = "done"
    /\ UNCHANGED properties

MakeStructure ==
    /\ basis_pc = "start"
    /\ basis_ret' = Returned("make_structure", make_structure(properties))
    /\ basis_pc' = "done"
    /\ UNCHANGED properties

(***************************************************************************)
(* make_allowed_species, make_prim, make_prim_mapper.  coordinate_mode is  *)
(* a string, a sequence of characters here.                                *)
(***************************************************************************)
CoordinateModes ==
    {<<"F", "r", "a", "c">>, <<"f">>, <<"D", "i", "r", "e", "c", "t">>,
     <<"C", "a", "r", "t">>, <<"x", "f">>, <<>>}
OccupantDofs == {<<"Ni">>, <<"Ni", "Va">>, <<"Al", "Ni">>}
PrimSites == [coordinate : Positions, occupant_dof : OccupantDofs]

PrimDicts ==
    [lattice_vectors : LatticeMatrices,
     coordinate_mode : CoordinateModes,
     basis : SeqUpTo(PrimSites, MaxPrimSites)]

\* c in "fF", for a string c of one character
IsLowerF(c) == c = "f"
InfF(c) == c \in {"f", "F"}

\* site["occupant_dof"][0]
LastOccupant(site) == site.occupant_dof[Len(site.occupant_dof)]
FirstOccupant(site) == site.occupant_dof[1]

make_allowed_species(pr) == [k \in DOMAIN pr.basis |-> pr.basis[k].occupant_dof]

make_prim(pr) ==
    LET lat == Lattice(pr.lattice_vectors[1], pr.lattice_vectors[2],
                       pr.lattice_vectors[3])
    IN IF \E k \in DOMAIN pr.basis : pr.basis[k].occupant_dof = <<>>
       THEN Raised("make_prim", "IndexError")
       ELSE IF pr.coordinate_mode = <<>>
       THEN Raised("make_prim", "IndexError")
       ELSE LET species == [k \in DOMAIN pr.basis |->
                               FirstOccupant(pr.basis[k])]
                coords == IF InfF(pr.coordinate_mode[1])
                          THEN [k \in DOMAIN pr.basis |->
                                  FromFractional(pr.basis[k].coordinate, lat)]
                          ELSE [k \in DOMAIN pr.basis |->
                                  Coordinate(pr.basis[k].coordinate)]
                pairs == Zip(coords, species)
            IN Returned("make_prim",
                   Structure(lat, [k \in DOMAIN pairs |->
                                      Site(pairs[k][1], pairs[k][2])]))

\* cu.mapping.structure.StructureMapper(prim_struc, allowed_species=...,
\* use_crystal_symmetry=True)
make_prim_mapper(pr) ==
    IF make_prim(pr).raised # "none"
    THEN Raised("make_prim_mapper", make_prim(pr).raised)
    ELSE Returned("make_prim_mapper",
             [prim_struc |-> make_prim(pr).value,
              allowed_species |-> make_allowed_species(pr),
              use_crystal_symmetry |-> TRUE])

PrimStart ==
    /\ prim \in PrimDicts
    /\ prim_pc = "start"
    /\ prim_ret = NotCalled

PrimIdle ==
    /\ prim = [lattice_vectors |-> Identity3, coordinate_mode |-> <<>>,
               basis |-> <<>>]
    /\ prim_pc = "idle"
    /\ prim_ret = NotCalled

MakeAllowedSpecies ==
    /\ prim_pc = "start"
    /\ prim_ret' = Returned("make_allowed_species", make_allowed_species(prim))
    /\ prim_pc' = "done"
    /\ UNCHANGED prim

MakePrim ==
    /\ prim_pc = "start"
    /\ prim_ret' = make_prim(prim)
    /\ prim_pc' = "done"
    /\ UNCHANGED prim

MakePrimMapper ==
    /\ prim_pc = "start"
    /\ prim_ret' = make_prim_mapper(prim)
    /\ prim_pc' = "done"
    /\ UNCHANGED prim

(***************************************************************************)
(* ProjectFilesystem and load_relaxed_structures.  A path is the sequence  *)
(* of its components and os.path.join concatenates; the disk is the set of *)
(* paths that exist.  A configname is a string, here the sequence of its   *)
(* pieces with "/" a piece of its own.                                     *)
(***************************************************************************)
\* self.root and self.calctype of the ProjectFilesystem
Root == <<"NiAl">>
CalcType == "default"
ConfigNames == {<<"SCEL1", "/", "0">>, <<"SCEL1", "/", "1">>,
                <<"SCEL2", "/", "0">>}

\* configname.split("/")
RECURSIVE Split(_)
Split(name) ==
    IF name = <<>> THEN <<"">>
    ELSE IF Head(name) = "/" THEN <<"">> \o Split(Tail(name))
    ELSE LET rest == Split(Tail(name))
         IN IF Head(rest) = "" THEN <<Head(name)>> \o Tail(rest)
            ELSE rest

\* "calctype.{}".format(self.calctype)
CalcTypeDir(calctype) == "calctype." \o calctype

\* os.path.exists(path)
Exists(d, path) == path \in d

\* ProjectFilesystem.configuration, decorated by returned_path_must_exist
configuration(d, name) ==
    IF Len(Split(name)) # 2
    THEN Raised("configuration", "ValueError")
    ELSE LET path == Root \o <<"training_data", Split(name)[1], Split(name)[2]>>
         IN IF ~Exists(d, path)
            THEN Raised("configuration", "FileNotFoundError")
            ELSE Returned("configuration", path)

\* ProjectFilesystem.calc_properties, decorated by return_None_if_doesnt_exist
NoPath == [none |-> TRUE]
SomePath(path) == [none |-> FALSE, path |-> path]

calc_properties(d, name) ==
    IF Len(Split(name)) # 2
    THEN Raised("calc_properties", "ValueError")
    ELSE IF configuration(d, name).raised # "none"
    THEN Raised("calc_properties", configuration(d, name).raised)
    ELSE LET path == configuration(d, name).value
                     \o <<CalcTypeDir(CalcType), "properties.calc.json">>
         IN IF ~Exists(d, path)
            THEN Returned("calc_properties", NoPath)
            ELSE Returned("calc_properties", SomePath(path))

\* The paths of one configuration that exist when it has got as far as
\* level: 0 nothing, 1 its directory, 2 the calctype directory, 3 the
\* properties file.
ConfigPaths(name, level) ==
    LET scel == Root \o <<"training_data", name[1]>>
        dir == scel \o <<name[3]>>
        calc == dir \o <<"calctype.default">>
        props == calc \o <<"properties.calc.json">>
    IN (IF level >= 1 THEN {scel, dir} ELSE {})
       \cup (IF level >= 2 THEN {calc} ELSE {})
       \cup (IF level >= 3 THEN {props} ELSE {})

Disks ==
    {{Root, Root \o <<"training_data">>}
       \cup UNION {ConfigPaths(n, level[n]) : n \in ConfigNames}
     : level \in [ConfigNames -> 0..3]}

\* make_structure(read_json(p)): the structure the file p describes
LoadedStructure(p) == [none |-> FALSE, read_from |-> p.path]
NoStructure == [none |-> TRUE]

FsStart ==
    /\ disk \in Disks
    /\ confignames \in SeqUpTo(ConfigNames, MaxNames)
    /\ fs_pc = "props_files"
    /\ props_files = <<>>
    /\ fs_ret = NotCalled

FsIdle ==
    /\ disk = {}
    /\ confignames = <<>>
    /\ fs_pc = "idle"
    /\ props_files = <<>>
    /\ fs_ret = NotCalled

\* props_files = [fs.calc_properties(c) for c in confignames], one c
CalcPropertiesStep ==
    /\ fs_pc = "props_files"
    /\ Len(props_files) < Len(confignames)
    /\ LET r == calc_properties(disk, confignames[Len(props_files) + 1])
       IN IF r.raised # "none"
          THEN /\ fs_ret' = Raised("load_relaxed_structures", r.raised)
               /\ fs_pc' = "raised"
               /\ UNCHANGED props_files
          ELSE /\ props_files' = Append(props_files, r.value)
               /\ UNCHANGED <<fs_ret, fs_pc>>
    /\ UNCHANGED <<disk, confignames>>

\* return [make_structure(read_json(p)) if p is not None else None ...]
LoadStructuresStep ==
    /\ fs_pc = "props_files"
    /\ Len(props_files) = Len(confignames)
    /\ fs_ret' = Returned("load_relaxed_structures",
                    [k \in DOMAIN props_files |->
                        IF ~props_files[k].none
                        THEN LoadedStructure(props_files[k])
                        ELSE NoStructure])
    /\ fs_pc' = "done"
    /\ UNCHANGED <<disk, confignames, props_files>>

(***************************************************************************)
(* The specifications, one per component.                                  *)
(***************************************************************************)
InitRank == RankStart /\ BasisIdle /\ PrimIdle /\ FsIdle
NextRank ==
    \/ InvokeMapper /\ UNCHANGED <<basis_vars, prim_vars, fs_vars>>
    \/ FinishRow /\ UNCHANGED <<basis_vars, prim_vars, fs_vars>>
    \/ AbsentRow /\ UNCHANGED <<basis_vars, prim_vars, fs_vars>>
    \/ ArgsortStep /\ UNCHANGED <<basis_vars, prim_vars, fs_vars>>
    \/ IsNanStep /\ UNCHANGED <<basis_vars, prim_vars, fs_vars>>
    \/ MaskedAssignStep /\ UNCHANGED <<basis_vars, prim_vars, fs_vars>>
SpecRank == InitRank /\ [][NextRank]_vars

InitBasis == RankIdle /\ BasisStart /\ PrimIdle /\ FsIdle
NextBasis ==
    \/ MakeBasis /\ UNCHANGED <<rank_vars, prim_vars, fs_vars>>
    \/ MakeStructure /\ UNCHANGED <<rank_vars, prim_vars, fs_vars>>
SpecBasis == InitBasis /\ [][NextBasis]_vars

InitPrim == RankIdle /\ BasisIdle /\ PrimStart /\ FsIdle
NextPrim ==
    \/ MakeAllowedSpecies /\ UNCHANGED <<rank_vars, basis_vars, fs_vars>>
    \/ MakePrim /\ UNCHANGED <<rank_vars, basis_vars, fs_vars>>
    \/ MakePrimMapper /\ UNCHANGED <<rank_vars, basis_vars, fs_vars>>
SpecPrim == InitPrim /\ [][NextPrim]_vars

InitFs == RankIdle /\ BasisIdle /\ PrimIdle /\ FsStart
NextFs ==
    \/ CalcPropertiesStep /\ UNCHANGED <<rank_vars, basis_vars, prim_vars>>
    \/ LoadStructuresStep /\ UNCHANGED <<rank_vars, basis_vars, prim_vars>>
SpecFs == InitFs /\ [][NextFs]_vars

(***************************************************************************)
(* Properties of rank_relaxed_structure_mapping_scores (SpecRank).         *)
(***************************************************************************)
\* The cost of report 0 of prototype jj (0-based) for configuration c.
Score(c, jj) == mappers[jj + 1][relaxed_structures[c]]

Present(c) == relaxed_structures[c] # "None"

\* The column of row r that holds index v.
Column(r, v) == CHOOSE k \in DOMAIN r : r[k] = v

\* C1: when the function has returned, the row of every configuration whose
\* structure is present is a permutation of the prototype indices 0..m-1
\* along which the costs of report 0 never decrease.
C1_PresentRowsAscending ==
    pc = "done" =>
        /\ Len(ranks) = Len(relaxed_structures)
        /\ \A c \in DOMAIN relaxed_structures :
              Present(c) =>
                 /\ Len(ranks[c]) = Len(mappers)
                 /\ \A v \in 0..(Len(mappers) - 1) :
                       \E k \in DOMAIN ranks[c] : ranks[c][k] = v
                 /\ \A k \in 1..(Len(mappers) - 1) :
                       Score(c, ranks[c][k]) <= Score(c, ranks[c][k + 1])

C1_Witness ==
    /\ pc = "done"
    /\ Len(mappers) = 2
    /\ ranks = << <<0, 1>>, <<1, 0>> >>
    /\ Score(1, 0) = 0 /\ Score(1, 1) = 5
    /\ Score(2, 0) = 5 /\ Score(2, 1) = 0

\* C2: when the function has returned, the row of a configuration whose
\* structure is None holds -1 in every column, and the row of a configuration
\* whose structure is present holds prototype indices only and no -1; so with
\* at least one prototype a row is all -1 exactly when the structure is None.
C2_UndefinedIsRowWide ==
    pc = "done" =>
        /\ Len(ranks) = Len(relaxed_structures)
        /\ \A c \in DOMAIN relaxed_structures :
              /\ Len(ranks[c]) = Len(mappers)
              /\ ~Present(c) => \A k \in DOMAIN ranks[c] : ranks[c][k] = -1
              /\ Present(c) =>
                    \A k \in DOMAIN ranks[c] :
                       ranks[c][k] \in 0..(Len(mappers) - 1)
              /\ Len(mappers) > 0 =>
                    ((\A k \in DOMAIN ranks[c] : ranks[c][k] = -1)
                        <=> ~Present(c))

C2_Witness ==
    /\ pc = "done"
    /\ Len(mappers) = 2
    /\ Len(relaxed_structures) = 2
    /\ ~Present(1) /\ ranks[1] = <<-1, -1>>
    /\ Present(2) /\ ranks[2] = <<1, 0>>

\* C3: when the function has returned, in the row of every present
\* configuration two prototypes of equal cost appear in the order of their
\* indices: the lower index in the earlier column.
C3_TiesByPrototypeIndex ==
    pc = "done" =>
        \A c \in DOMAIN relaxed_structures :
           Present(c) =>
              \A j1, j2 \in 0..(Len(mappers) - 1) :
                 (j1 < j2 /\ Score(c, j1) = Score(c, j2)) =>
                    Column(ranks[c], j1) < Column(ranks[c], j2)

\* C7: with no mappers or no configurations the function runs to its return
\* without stopping on an error, and the array it returns has no cells.
C7_EmptyInputEmptyResult ==
    (Len(mappers) = 0 \/ Len(relaxed_structures) = 0) =>
        /\ pc # "done" => ENABLED NextRank
        /\ pc = "done" =>
              /\ Len(ranks) = Len(relaxed_structures)
              /\ \A c \in DOMAIN ranks : ranks[c] = <<>>

C7_Witness ==
    /\ pc = "done"
    /\ Len(mappers) = 0
    /\ Len(relaxed_structures) = 2
    /\ ~Present(1)
    /\ Present(2)
    /\ ranks = << <<>>, <<>> >>

\* The number of invocations of mapper jj on configuration c so far.
CallCount(jj, c) ==
    Cardinality({k \in DOMAIN calls :
                    calls[k].mapper = jj /\ calls[k].config = c})

PresentCount == Cardinality({c \in DOMAIN relaxed_structures : Present(c)})

\* C10: every invocation of an oracle passes the structure of a present
\* configuration; no oracle is invoked twice for a configuration; once the
\* scores are complete each oracle has been invoked exactly once for each
\* present configuration and never for an absent one, m times the number of
\* present configurations in all; and a -1 is in the result only after all
\* the scores are known.
C10_OneInvocationPerPresentCell ==
    /\ \A k \in DOMAIN calls :
          /\ calls[k].arg # "None"
          /\ calls[k].arg = relaxed_structures[calls[k].config]
    /\ \A c \in DOMAIN relaxed_structures : \A jj \in DOMAIN mappers :
          CallCount(jj, c) <= 1
    /\ pc \in {"isnan", "assign", "done"} =>
          /\ \A c \in DOMAIN relaxed_structures : \A jj \in DOMAIN mappers :
                CallCount(jj, c) = IF Present(c) THEN 1 ELSE 0
          /\ Len(calls) = Len(mappers) * PresentCount
    /\ (\E c \in DOMAIN ranks : \E k \in DOMAIN ranks[c] : ranks[c][k] = -1)
          => /\ pc = "done"
             /\ Len(scores) = Len(relaxed_structures)
             /\ Len(calls) = Len(mappers) * PresentCount

C10_Witness ==
    /\ pc = "done"
    /\ Len(mappers) = 2
    /\ Len(relaxed_structures) = 2
    /\ ~Present(1)
    /\ Present(2)
    /\ Len(calls) = 2
    /\ ranks[1] = <<-1, -1>>

(***************************************************************************)
(* Properties of make_basis and make_structure (SpecBasis).                *)
(***************************************************************************)
RECURSIVE SumSeq(_)
SumSeq(q) == IF q = <<>> THEN 0 ELSE Head(q) + SumSeq(Tail(q))

\* The first b counts added up.
PrefixSum(q, b) == SumSeq(SubSeq(q, 1, b))

\* The block of the run-length code that site k falls in.
Block(counts, k) ==
    CHOOSE b \in DOMAIN counts :
        PrefixSum(counts, b - 1) < k /\ k <= PrefixSum(counts, b)

\* The sites a call to make_basis or make_structure returned.
ReturnedSites ==
    IF basis_ret.called = "make_basis" THEN basis_ret.value
    ELSE basis_ret.value.basis

\* The sites are those of relaxed_basis, in order, each with its position
\* and the label of its block.
SitesFollowRecord ==
    /\ basis_ret.raised = "none"
    /\ Len(ReturnedSites) = Len(properties.relaxed_basis)
    /\ \A k \in DOMAIN ReturnedSites :
          /\ ReturnedSites[k].coord =
                FromFractional(properties.relaxed_basis[k],
                   Lattice(properties.relaxed_lattice[1],
                           properties.relaxed_lattice[2],
                           properties.relaxed_lattice[3]))
          /\ ReturnedSites[k].label =
                properties.atom_type[Block(properties.atoms_per_type, k)]

\* C4: a record whose counts do not add up to the number of positions, or
\* whose labels and counts differ in number, makes the call fail with
\* ShapeMismatch.
C4_MismatchRaises ==
    (/\ basis_pc = "done"
     /\ \/ SumSeq(properties.atoms_per_type) # Len(properties.relaxed_basis)
        \/ Len(properties.atom_type) # Len(properties.atoms_per_type))
        => basis_ret.raised = "ShapeMismatch"

IsOccupantTable(table) ==
    /\ Len(table) = Len(prim.basis)
    /\ \A k \in DOMAIN table : table[k] = prim.basis[k].occupant_dof

\* One site per basis entry, in order, each with its first occupant.
HasDefaultOccupants(struc) ==
    /\ Len(struc.basis) = Len(prim.basis)
    /\ \A k \in DOMAIN struc.basis :
          struc.basis[k].label = Head(prim.basis[k].occupant_dof)

\* C8: make_allowed_species returns the occupant_dof lists of the sites in
\* order and unchanged; a structure make_prim returns has one site per basis
\* entry, in order, with the first occupant of that entry; and the table has
\* as many rows as the structure has sites.
C8_DefaultOccupantsAndTable ==
    prim_pc = "done" =>
        /\ prim_ret.called = "make_allowed_species" =>
              /\ prim_ret.raised = "none"
              /\ IsOccupantTable(prim_ret.value)
        /\ (prim_ret.called = "make_prim" /\ prim_ret.raised = "none") =>
              HasDefaultOccupants(prim_ret.value)
        /\ (prim_ret.called = "make_prim_mapper" /\ prim_ret.raised = "none")
              => /\ HasDefaultOccupants(prim_ret.value.prim_struc)
                 /\ IsOccupantTable(prim_ret.value.allowed_species)
                 /\ Len(prim_ret.value.allowed_species) =
                       Len(prim_ret.value.prim_struc.basis)

C8_Witness ==
    /\ prim_pc = "done"
    /\ prim_ret.called = "make_prim_mapper"
    /\ prim_ret.raised = "none"
    /\ Len(prim.basis) = 2
    /\ prim.basis[1].occupant_dof = <<"Ni", "Va">>
    /\ prim.basis[2].occupant_dof = <<"Al", "Ni">>
    /\ prim_ret.value.prim_struc.basis[1].label = "Ni"
    /\ prim_ret.value.prim_struc.basis[2].label = "Al"
    /\ prim_ret.value.allowed_species = <<<<"Ni", "Va">>, <<"Al", "Ni">>>>

\* make_prim returned, and every position is converted from fractional when
\* the first character of coordinate_mode is f or F and is used unchanged
\* otherwise.
TwoWayBranch ==
    /\ prim_ret.raised = "none"
    /\ Len(prim_ret.value.basis) = Len(prim.basis)
    /\ \A k \in DOMAIN prim_ret.value.basis :
          prim_ret.value.basis[k].coord.cart =
             IF Head(prim.coordinate_mode) \in {"f", "F"}
             THEN [d \in 1..3 |->
                     prim.basis[k].coordinate[1] * prim.lattice_vectors[1][d]
                     + prim.basis[k].coordinate[2] * prim.lattice_vectors[2][d]
                     + prim.basis[k].coordinate[3] * prim.lattice_vectors[3][d]]
             ELSE prim.basis[k].coordinate

\* C9 as stated: for every value of coordinate_mode make_prim raises no error
\* and takes the fractional branch on a first character f or F and the
\* Cartesian branch otherwise.
C9_AsStated ==
    (prim_pc = "done" /\ prim_ret.called = "make_prim") => TwoWayBranch

\* C9: for every value of coordinate_mode that is not the empty string
\* make_prim raises no error and takes the fractional branch on a first
\* character f or F and the Cartesian branch otherwise.
C9_TwoWayBranchOnFirstCharacter ==
    (/\ prim_pc = "done"
     /\ prim_ret.called = "make_prim"
     /\ prim.coordinate_mode # <<>>) => TwoWayBranch

C9_Witness ==
    /\ prim_pc = "done"
    /\ prim_ret.called = "make_prim"
    /\ prim.coordinate_mode = <<"D", "i", "r", "e", "c", "t">>
    /\ prim.lattice_vectors = Sheared3
    /\ Len(prim.basis) = 1
    /\ prim.basis[1].coordinate = <<1, 2, 1>>
    /\ prim_ret.raised = "none"
    /\ prim_ret.value.basis[1].coord.cart = <<1, 2, 1>>

(***************************************************************************)
(* Properties of calc_properties and load_relaxed_structures (SpecFs).     *)
(***************************************************************************)
\* The properties file of configuration name.
PropertiesFile(name) ==
    Root \o <<"training_data", name[1], name[3], "calctype.default",
              "properties.calc.json">>

\* C6: load_relaxed_structures raises nothing and returns a list as long as
\* confignames that holds None exactly where the properties file of the
\* configuration does not exist, whether its directory exists or not.
C6_MissingFileGivesNone ==
    fs_pc \in {"done", "raised"} =>
        /\ fs_ret.raised = "none"
        /\ Len(fs_ret.value) = Len(confignames)
        /\ \A k \in DOMAIN confignames :
              fs_ret.value[k].none <=> PropertiesFile(confignames[k]) \notin disk

====
